---- MODULE Spec2Model ----
(***************************************************************************)
(* Model of the crawler of internal/docs/scraper/scraper.go:               *)
(* Scraper.DownloadDoc (the coordinator loop and the goroutine that seeds  *)
(* the queue, waits on the WaitGroup and closes the queue) and             *)
(* Scraper.fetchAndProcess (one goroutine per claimed task).               *)
(*                                                                         *)
(* Goroutines interleave at the operations that touch shared state: the    *)
(* channel (send, receive, close), the mutex s.mu, the WaitGroup s.wg and  *)
(* the map s.visitedURLs.  A lock/test/unlock sequence that cannot block   *)
(* in between is one step; a send made while the mutex is held is a step   *)
(* of its own, because it blocks while the buffer is full.                 *)
(***************************************************************************)
EXTENDS Integers, Sequences, FiniteSets, TLC

(***************************************************************************)
(* Bounds of the model.                                                    *)
(***************************************************************************)
\* Capacity of the buffered channel.  scraper.go:56 makes it 100; the model
\* keeps the channel's semantics (a send blocks while Len(queue) = capacity)
\* and scales the capacity down together with the width of the widest page.
QueueCap == 2

\* maxDepth is drawn from 0..MaxDepthBound.
MaxDepthBound == 2

\* Number of DownloadDoc calls made on the one Scraper.
MaxCalls == 2

(***************************************************************************)
(* URLs.  A URL is the string the code uses as map key and channel         *)
(* payload; url.Parse is modelled by what the code reads from its result:  *)
(* whether it fails, and the Host field.                                   *)
(***************************************************************************)
Root == "http://h/"
PageA == "http://h/a"
PageB == "http://h/b"
Other == "http://o/"
BadURL == "http://h/%zz"

Pages == {Root, PageA, PageB}
URLs == Pages \cup {Other, BadURL}

\* Mutant: the parse error is dropped.
ParseOKAlways(u) == TRUE

\* url.Parse(u) returns err == nil
ParseOK(u) == u # BadURL

\* url.Parse(u).Host
Host(u) == IF u = Other THEN "o" ELSE "h"

\* Link lists of pages, as extractLinks returns them (raw, duplicates kept).
WideLinks == [k \in 1..(QueueCap + 2) |-> PageA]

Mesh == (Root :> <<PageA, Other, PageB>>) @@ (PageA :> <<PageB, Root>>)
          @@ (PageB :> <<PageA>>)
Chain == (Root :> <<PageA>>) @@ (PageA :> <<PageB>>) @@ (PageB :> <<Root>>)
Wide == (Root :> WideLinks) @@ (PageA :> <<PageB>>) @@ (PageB :> <<>>)

WideAfter == (Root :> <<PageB>> \o WideLinks) @@ (PageA :> <<>>)
               @@ (PageB :> <<>>)

Sites == {Mesh, Chain, Wide, WideAfter}
Seeds == {Root, BadURL}

(***************************************************************************)
(* State.                                                                  *)
(***************************************************************************)
VARIABLES
    site,         \* the documents served: page URL -> its link list
    calls,        \* DownloadDoc calls made so far on this Scraper
    seedURL,      \* doc.URL of the current call
    maxDepth,     \* maxDepth of the current call
    initialHost,  \* initialURL.Host of the current call
    visitedURLs,  \* s.visitedURLs: the URLs mapped to true
    mu,           \* s.mu: 0 when unlocked, else the number of the holding worker
    wg,           \* s.wg: the WaitGroup counter
    queue,        \* the buffered channel's content
    closed,       \* whether close(queue) has run
    coPc,         \* DownloadDoc's position: idle, recv, claim, dup, depth,
                  \*   returned (nil), error (invalid initial URL)
    current,      \* the task the range loop holds
    sdPc,         \* the seeding goroutine's position: none, send, wait,
                  \*   close, exit
    workers       \* the fetchAndProcess goroutines started, in start order

\* extractText (scraper.go:219-237) on one parsed document
VARIABLES
    tree,         \* the *html.Node tree: path of child numbers -> node
    textPc,       \* off, build (the tree is being given), done (extracted)
    plainText     \* what extractText returned: the chunks written, in order

\* the Indexer (indexer.go) on one index path
VARIABLES
    disk,         \* what the index path holds, and whether storage fails
    idx,          \* the *Indexer in hand: none, or open
    ixPc,         \* off, ready, opened, failed
    ixErr,        \* what the last NewIndexer returned
    hits,         \* what the last Search returned
    lastAdd       \* the last AddDocument: path, content, document replaced

\* the server command of main (the second file of scraper.go, 269-569)
VARIABLES
    langFlag,          \* -lang as given: its comma separated entries
    allowedLanguages,  \* the package variable: nil, or the set of its keys
    srvPc,             \* off, start, fatal, serving
    lastReply          \* the last tool call and its result

\* the read command of main (scraper.go, 345-357 and 550-569)
VARIABLES
    readPc,       \* off, start, fatal, fetch, error, got, printed, panic
    readContent,  \* content: what ReadDocContent returned, a sequence of bytes
    snippet       \* the bytes printed under "Content Snippet"

crawlVars == <<site, calls, seedURL, maxDepth, initialHost, visitedURLs, mu, wg,
               queue, closed, coPc, current, sdPc, workers>>
textVars == <<tree, textPc, plainText>>
indexVars == <<disk, idx, ixPc, ixErr, hits, lastAdd>>
serverVars == <<langFlag, allowedLanguages, srvPc, lastReply>>
readVars == <<readPc, readContent, snippet>>

vars == <<crawlVars, textVars, indexVars, serverVars, readVars>>

\* The components are run one at a time; these are the others at rest.
CrawlIdle ==
    /\ site = [u \in {} |-> <<>>]
    /\ calls = 0
    /\ seedURL = ""
    /\ maxDepth = 0
    /\ initialHost = ""
    /\ visitedURLs = {}
    /\ mu = 0
    /\ wg = 0
    /\ queue = <<>>
    /\ closed = FALSE
    /\ coPc = "off"
    /\ current = [url |-> "", depth |-> 0]
    /\ sdPc = "none"
    /\ workers = <<>>

TextIdle ==
    /\ tree = [p \in {} |-> 0]
    /\ textPc = "off"
    /\ plainText = <<>>

\* an index without documents
NoDocs == [id \in {} |-> <<>>]

\* no search made with the handle since the last AddDocument
NoHits == [term |-> "", ids |-> {}]

\* no document added with the handle
NoAdd == [path |-> "", content |-> <<>>, had |-> FALSE, old |-> <<>>]

IndexIdle ==
    /\ disk = [state |-> "absent", fault |-> FALSE, docs |-> NoDocs]
    /\ idx = "none"
    /\ ixPc = "off"
    /\ ixErr = "none"
    /\ hits = NoHits
    /\ lastAdd = NoAdd

\* var allowedLanguages map[string]bool, line 304: a nil map
NilMap == [nil |-> TRUE, keys |-> {}]

\* no tool request answered
NoReply ==
    [tool |-> "none", args |-> "", lang |-> "", result |-> "", fetched |-> FALSE]

ServerIdle ==
    /\ langFlag = <<>>
    /\ allowedLanguages = NilMap
    /\ srvPc = "off"
    /\ lastReply = NoReply

ReadIdle ==
    /\ readPc = "off"
    /\ readContent = <<>>
    /\ snippet = <<>>

Task(u, d) == [url |-> u, depth |-> d]
NoTask == Task("", 0)

\* What one http.Get / save / parse / index run of fetchAndProcess ends in.
FetchOutcomes == {"get_err", "read_err", "status", "urlparse_err", "mkdir_err",
                  "write_err", "htmlparse_err", "index_err", "ok"}

\* Mutant: the page is written before the status code is tested.
SavesBeforeStatusCheck(o) == o \notin {"get_err", "read_err"}

\* Mutant: the page is written once html.Parse has succeeded.
SavesAfterParse(o) == o \in {"index_err", "ok"}

\* ioutil.WriteFile at line 140 has succeeded
Saves(o) == o \in {"htmlparse_err", "index_err", "ok"}

\* s.Indexer.AddDocument at line 159 ran and stored the document
Indexes(o) == o = "ok"

\* Mutant: a failed MkdirAll or WriteFile is logged and the worker goes on.
ExtractsLinksAfterStorageError(o) ==
    o \in {"mkdir_err", "write_err", "index_err", "ok"}

\* Mutant: the error of AddDocument is tested and the worker returns on it.
ExtractsLinksOnlyWhenIndexed(o) == o = "ok"

\* the link loop at lines 161-182 is reached
ExtractsLinks(o) == o \in {"index_err", "ok"}

\* Mutant: the visited test is lost.
AlreadyVisitedNever(u) == FALSE

\* s.visitedURLs[u]
AlreadyVisited(u) == u \in visitedURLs

\* Mutant: the map is made anew at each insertion.
MarkVisitedAlone(u) == {u}

\* s.visitedURLs[current.url] = true
MarkVisited(u) == visitedURLs \cup {u}

\* Mutant: the depth test is off by one.
DepthExceededOffByOne(d) == d > maxDepth + 1

\* current.depth > maxDepth
DepthExceeded(d) == d > maxDepth

\* Mutant: the host test is lost.
SameHostAlways(link) == TRUE

\* parsedLink.Host == initialHost
SameHost(link) == Host(link) = initialHost

\* Mutant: the child depth skips a level.
ChildDepthSkips(d) == d + 2

\* depth: currentDepth + 1, of a task a worker enqueues
ChildDepth(d) == d + 1

\* Mutant: Wait returns while one task is still outstanding.
WaitReturnsEarly == wg <= 1

\* s.wg.Wait() returns
WaitReturns == wg = 0

\* the channel has room: a send does not block
CanSend == Len(queue) < QueueCap

Init ==
    /\ site \in Sites
    /\ calls = 0
    /\ seedURL = ""
    /\ maxDepth = 0
    /\ initialHost = ""
    /\ visitedURLs = {}
    /\ mu = 0
    /\ wg = 0
    /\ queue = <<>>
    /\ closed = FALSE
    /\ coPc = "idle"
    /\ current = NoTask
    /\ sdPc = "none"
    /\ workers = <<>>
    /\ TextIdle
    /\ IndexIdle
    /\ ServerIdle
    /\ ReadIdle

(***************************************************************************)
(* DownloadDoc, lines 44-89.                                               *)
(***************************************************************************)
\* Lines 44-59: parse the seed, make the queue, Add(1), start the seeder.
DownloadDoc(u, md) ==
    /\ coPc \in {"idle", "returned", "error"}
    /\ calls < MaxCalls
    /\ calls' = calls + 1
    /\ seedURL' = u
    /\ maxDepth' = md
    /\ IF ~ParseOK(u)
         THEN /\ coPc' = "error"
              /\ UNCHANGED <<initialHost, wg, queue, closed, sdPc>>
         ELSE /\ coPc' = "recv"
              /\ initialHost' = Host(u)
              /\ queue' = <<>>
              /\ closed' = FALSE
              /\ wg' = wg + 1
              /\ sdPc' = "send"
    /\ UNCHANGED <<site, visitedURLs, mu, current, workers>>
    /\ UNCHANGED <<textVars, indexVars, serverVars, readVars>>

\* Lines 60-65: the seeder sends the seed task.
SeedSend ==
    /\ sdPc = "send"
    /\ CanSend
    /\ queue' = Append(queue, Task(seedURL, 0))
    /\ sdPc' = "wait"
    /\ UNCHANGED <<site, calls, seedURL, maxDepth, initialHost, visitedURLs,
                   mu, wg, closed, coPc, current, workers>>
    /\ UNCHANGED <<textVars, indexVars, serverVars, readVars>>

\* Line 66: s.wg.Wait()
SeedWait ==
    /\ sdPc = "wait"
    /\ WaitReturns
    /\ sdPc' = "close"
    /\ UNCHANGED <<site, calls, seedURL, maxDepth, initialHost, visitedURLs,
                   mu, wg, queue, closed, coPc, current, workers>>
    /\ UNCHANGED <<textVars, indexVars, serverVars, readVars>>

\* Line 67: close(queue)
SeedClose ==
    /\ sdPc = "close"
    /\ closed' = TRUE
    /\ sdPc' = "exit"
    /\ UNCHANGED <<site, calls, seedURL, maxDepth, initialHost, visitedURLs,
                   mu, wg, queue, coPc, current, workers>>
    /\ UNCHANGED <<textVars, indexVars, serverVars, readVars>>

\* Line 70: the range loop receives a task.
CoRecv ==
    /\ coPc = "recv"
    /\ queue # <<>>
    /\ current' = Head(queue)
    /\ queue' = Tail(queue)
    /\ coPc' = "claim"
    /\ UNCHANGED <<site, calls, seedURL, maxDepth, initialHost, visitedURLs,
                   mu, wg, closed, sdPc, workers>>
    /\ UNCHANGED <<textVars, indexVars, serverVars, readVars>>

\* Lines 70, 88: the queue is closed and drained; the loop ends, return nil.
CoExit ==
    /\ coPc = "recv"
    /\ queue = <<>>
    /\ closed
    /\ coPc' = "returned"
    /\ UNCHANGED <<site, calls, seedURL, maxDepth, initialHost, visitedURLs,
                   mu, wg, queue, closed, current, sdPc, workers>>
    /\ UNCHANGED <<textVars, indexVars, serverVars, readVars>>

\* Lines 71-78: under s.mu, test the URL and mark it visited.
CoClaim ==
    /\ coPc = "claim"
    /\ mu = 0
    /\ IF AlreadyVisited(current.url)
         THEN /\ coPc' = "dup"
              /\ UNCHANGED visitedURLs
         ELSE /\ visitedURLs' = MarkVisited(current.url)
              /\ coPc' = "depth"
    /\ UNCHANGED <<site, calls, seedURL, maxDepth, initialHost, mu, wg, queue,
                   closed, current, sdPc, workers>>
    /\ UNCHANGED <<textVars, indexVars, serverVars, readVars>>

\* Lines 74-75: s.wg.Done() for an already visited URL.
CoSkipDup ==
    /\ coPc = "dup"
    /\ wg' = wg - 1
    /\ coPc' = "recv"
    /\ UNCHANGED <<site, calls, seedURL, maxDepth, initialHost, visitedURLs,
                   mu, queue, closed, current, sdPc, workers>>
    /\ UNCHANGED <<textVars, indexVars, serverVars, readVars>>

NewWorker(t) ==
    [url |-> t.url, depth |-> t.depth, call |-> calls, pc |-> "fetch",
     outcome |-> "none", saved |-> FALSE, indexed |-> FALSE, i |-> 1,
     sent |-> 0, dones |-> 0]

\* Lines 80-85: s.wg.Done() for a task beyond maxDepth, else start the worker.
CoDepth ==
    /\ coPc = "depth"
    /\ IF DepthExceeded(current.depth)
         THEN /\ wg' = wg - 1
              /\ UNCHANGED workers
         ELSE /\ workers' = Append(workers, NewWorker(current))
              /\ UNCHANGED wg
    /\ coPc' = "recv"
    /\ UNCHANGED <<site, calls, seedURL, maxDepth, initialHost, visitedURLs,
                   mu, queue, closed, current, sdPc>>
    /\ UNCHANGED <<textVars, indexVars, serverVars, readVars>>

(***************************************************************************)
(* fetchAndProcess, lines 91-183.  w is the worker's number.               *)
(***************************************************************************)
\* extractLinks(htmlDoc, currentURL): the link list of the page fetched
Links(w) ==
    IF workers[w].url \in DOMAIN site THEN site[workers[w].url] ELSE <<>>

\* Lines 96-161: fetch, save, parse, index; every failure returns.
WFetch(w, o) ==
    /\ workers[w].pc = "fetch"
    /\ workers' = [workers EXCEPT ![w].outcome = o,
                      ![w].saved = Saves(o),
                      ![w].indexed = Indexes(o),
                      ![w].pc = IF ExtractsLinks(o) THEN "links" ELSE "ret"]
    /\ UNCHANGED <<site, calls, seedURL, maxDepth, initialHost, visitedURLs,
                   mu, wg, queue, closed, coPc, current, sdPc>>
    /\ UNCHANGED <<textVars, indexVars, serverVars, readVars>>

\* Lines 162-171 for link number i: skip it, or lock s.mu, test visitedURLs
\* and Add(1); the lock is kept for the send.
WLink(w) ==
    /\ workers[w].pc = "links"
    /\ workers[w].i <= Len(Links(w))
    /\ LET link == Links(w)[workers[w].i]
       IN  IF ~ParseOK(link) \/ ~SameHost(link)
             THEN /\ workers' = [workers EXCEPT ![w].i = @ + 1]
                  /\ UNCHANGED <<mu, wg>>
             ELSE /\ mu = 0
                  /\ IF AlreadyVisited(link)
                       THEN /\ workers' = [workers EXCEPT ![w].i = @ + 1]
                            /\ UNCHANGED <<mu, wg>>
                       ELSE /\ wg' = wg + 1
                            /\ mu' = w
                            /\ workers' = [workers EXCEPT ![w].pc = "send"]
    /\ UNCHANGED <<site, calls, seedURL, maxDepth, initialHost, visitedURLs,
                   queue, closed, coPc, current, sdPc>>
    /\ UNCHANGED <<textVars, indexVars, serverVars, readVars>>

\* Lines 172-180: the send (a panic on a closed channel), then Unlock.
WSend(w) ==
    /\ workers[w].pc = "send"
    /\ IF closed
         THEN /\ workers' = [workers EXCEPT ![w].pc = "panic"]
              /\ UNCHANGED <<queue, mu>>
         ELSE /\ CanSend
              /\ queue' = Append(queue, Task(Links(w)[workers[w].i],
                                             ChildDepth(workers[w].depth)))
              /\ mu' = 0
              /\ workers' = [workers EXCEPT ![w].pc = "links", ![w].i = @ + 1,
                                            ![w].sent = @ + 1]
    /\ UNCHANGED <<site, calls, seedURL, maxDepth, initialHost, visitedURLs,
                   wg, closed, coPc, current, sdPc>>
    /\ UNCHANGED <<textVars, indexVars, serverVars, readVars>>

\* Mutant: Done is called at the end of the function, not deferred, so a
\* failure return skips it.
WgAfterReturnNotDeferred(w) == IF workers[w].pc = "ret" THEN wg ELSE wg - 1

\* the counter after the deferred s.wg.Done() of line 92
WgAfterReturn(w) == wg - 1

\* Line 92: the deferred s.wg.Done(), at a failure return or after the loop.
WReturn(w) ==
    /\ \/ workers[w].pc = "ret"
       \/ workers[w].pc = "links" /\ workers[w].i > Len(Links(w))
    /\ wg' = WgAfterReturn(w)
    /\ workers' = [workers EXCEPT ![w].pc = "done", ![w].dones = @ + 1]
    /\ UNCHANGED <<site, calls, seedURL, maxDepth, initialHost, visitedURLs,
                   mu, queue, closed, coPc, current, sdPc>>
    /\ UNCHANGED <<textVars, indexVars, serverVars, readVars>>

\* every step but the return of a fetch
Progress ==
    \/ \E u \in Seeds, md \in 0..MaxDepthBound : DownloadDoc(u, md)
    \/ SeedSend
    \/ SeedWait
    \/ SeedClose
    \/ CoRecv
    \/ CoExit
    \/ CoClaim
    \/ CoSkipDup
    \/ CoDepth
    \/ \E w \in DOMAIN workers : WLink(w)
    \/ \E w \in DOMAIN workers : WSend(w)
    \/ \E w \in DOMAIN workers : WReturn(w)

Next ==
    \/ Progress
    \/ \E w \in DOMAIN workers, o \in FetchOutcomes : WFetch(w, o)

Spec == Init /\ [][Next]_vars

(***************************************************************************)
(* extractText, scraper.go:219-237, on the tree html.Parse returns.        *)
(* A node is reached from the root by a path of child numbers; FirstChild  *)
(* and NextSibling walk the children p \o <<1>>, p \o <<2>>, ...           *)
(***************************************************************************)
\* Number of nodes below the document node.
MaxNodes == 4

Node(t, d) == [type |-> t, data |-> d]

\* the nodes html.Parse makes below the document node
NodeKinds ==
    {Node("text", "a"), Node("text", "b"), Node("comment", "a"),
     Node("element", "div"), Node("element", "script"),
     Node("element", "style")}

\* the number of children of the node at p
NumKids(t, p) == Cardinality({q \in DOMAIN t : Len(q) = Len(p) + 1
                                               /\ SubSeq(q, 1, Len(p)) = p})

\* Mutant: only script is skipped.
SkipsContentScriptOnly(n) == n.type = "element" /\ n.data = "script"

\* n.Type == html.ElementNode && (n.Data == "script" || n.Data == "style")
SkipsContent(n) == n.type = "element" /\ (n.data = "script" \/ n.data = "style")

\* the closure f of extractText: what it appends to the builder at node p
RECURSIVE WalkText(_, _), WalkKids(_, _, _)
WalkText(t, p) ==
    (IF t[p].type = "text" THEN <<t[p].data>> ELSE <<>>)
    \o (IF SkipsContent(t[p]) THEN <<>> ELSE WalkKids(t, p, 1))

\* for c := n.FirstChild; c != nil; c = c.NextSibling { f(c) }, from child k
WalkKids(t, p, k) ==
    IF k > NumKids(t, p)
      THEN <<>>
      ELSE WalkText(t, Append(p, k)) \o WalkKids(t, p, k + 1)

\* extractText(n) for the root n of t
ExtractText(t) == WalkText(t, <<>>)

TextInit ==
    /\ tree = (<<>> :> Node("document", ""))
    /\ textPc = "build"
    /\ plainText = <<>>
    /\ CrawlIdle
    /\ IndexIdle
    /\ ServerIdle
    /\ ReadIdle

\* html.Parse gives the node at p one more (last) child.
GrowTree(p, n) ==
    /\ textPc = "build"
    /\ Cardinality(DOMAIN tree) <= MaxNodes
    /\ p \in DOMAIN tree
    /\ tree[p].type \in {"document", "element"}
    /\ tree' = (Append(p, NumKids(tree, p) + 1) :> n) @@ tree
    /\ UNCHANGED <<textPc, plainText>>
    /\ UNCHANGED <<crawlVars, indexVars, serverVars, readVars>>

\* Line 157: plainText := extractText(htmlDoc)
CallExtractText ==
    /\ textPc = "build"
    /\ plainText' = ExtractText(tree)
    /\ textPc' = "done"
    /\ UNCHANGED tree
    /\ UNCHANGED <<crawlVars, indexVars, serverVars, readVars>>

TextNext ==
    \/ \E p \in DOMAIN tree, n \in NodeKinds : GrowTree(p, n)
    \/ CallExtractText

SpecText == TextInit /\ [][TextNext]_vars

(***************************************************************************)
(* The indexer, indexer.go.  The bleve index lives at indexPath (disk);    *)
(* bleve.New, bleve.Open, Index and Search are the library's, modelled by  *)
(* their contract at the lines that call them.                             *)
(*   disk.state  "absent", "valid" (a bleve index), "foreign" (the path    *)
(*               exists and holds no index that can be opened)             *)
(*   disk.fault  the storage refuses operations (permissions, I/O)         *)
(*   disk.docs   the documents of the index, by id                         *)
(*   idx         Indexer.index: "none" (no Indexer) or "open"              *)
(*   ixPc        the caller: "ready" to call NewIndexer, "opened" or       *)
(*               "failed" after it                                         *)
(*   ixErr       the error of the last NewIndexer                          *)
(*   hits        the last Search made since the last AddDocument           *)
(*   lastAdd     the last AddDocument made with the handle                 *)
(***************************************************************************)
IndexPaths == {"go/a", "b"}

Words == {"Running", "run", "the", "go"}

Contents ==
    {<<"Running">>, <<"run", "go">>, <<"the", "go">>, <<"go">>,
     <<"Running", "the">>}

\* Line 24, the "en" analyzer on a word: lower case, stop words, stemming.
AnalyzeEn(w) ==
    CASE w = "Running" -> {"run"}
      [] w = "run"     -> {"run"}
      [] w = "go"      -> {"go"}
      [] OTHER         -> {}

\* the terms indexed for a Content
Terms(content) == UNION {AnalyzeEn(content[i]) : i \in DOMAIN content}

\* the terms indexed for a Path
PathTerms(path) ==
    CASE path = "go/a" -> {"go", "a"}
      [] path = "b"    -> {"b"}
      [] OTHER         -> {}

Queries == {"run", "go", "a", "the"}

\* the terms indexed for the struct AddDocument builds, lines 51-57
DocTerms(data) == Terms(data.Content) \cup PathTerms(data.Path)

\* Mutant: an id already indexed keeps its content and gains the new one.
IndexDocMerges(docs, id, data) ==
    IF id \in DOMAIN docs
      THEN (id :> [Path |-> data.Path,
                   Content |-> docs[id].Content \o data.Content]) @@ docs
      ELSE (id :> data) @@ docs

\* Line 59, i.index.Index(id, data): the document of that id is now data.
IndexDoc(docs, id, data) == (id :> data) @@ docs

\* Lines 68-78: the ids of the documents the query matches.
Matches(docs, q) == {id \in DOMAIN docs : q \in DocTerms(docs[id])}

\* Line 30, bleve.New(indexPath, indexMapping)
BleveNew(d) ==
    IF d.state # "absent" THEN "ErrorIndexPathExists"
    ELSE IF d.fault THEN "error"
    ELSE "nil"

\* Line 34, bleve.Open(indexPath)
BleveOpen(d) == IF d.state = "valid" /\ ~d.fault THEN "nil" ELSE "error"

\* Mutant: an existing path is an error like any other.
OpensExistingNever(err) == FALSE

\* Line 32: err == bleve.ErrorIndexPathExists
OpensExisting(err) == err = "ErrorIndexPathExists"

IndexInit ==
    /\ disk \in {[state |-> st, fault |-> FALSE, docs |-> NoDocs] :
                    st \in {"absent", "foreign"}}
    /\ idx = "none"
    /\ ixPc = "ready"
    /\ ixErr = "none"
    /\ hits = NoHits
    /\ lastAdd = NoAdd
    /\ CrawlIdle
    /\ TextIdle
    /\ ServerIdle
    /\ ReadIdle

\* The storage starts or stops refusing operations.
Storage ==
    /\ ixPc # "off"
    /\ disk' = [disk EXCEPT !.fault = ~disk.fault]
    /\ UNCHANGED <<idx, ixPc, ixErr, hits, lastAdd>>
    /\ UNCHANGED <<crawlVars, textVars, serverVars, readVars>>

\* NewIndexer(indexPath), lines 15-47, with no Indexer open on the path.
NewIndexer ==
    /\ ixPc = "ready"
    /\ idx = "none"
    /\ LET err == BleveNew(disk)
       IN  IF err = "nil"
             THEN /\ disk' = [disk EXCEPT !.state = "valid", !.docs = NoDocs]
                  /\ idx' = "open"
                  /\ ixPc' = "opened"
                  /\ ixErr' = "none"
           ELSE IF OpensExisting(err)
             THEN IF BleveOpen(disk) = "nil"
                    THEN /\ idx' = "open"
                         /\ ixPc' = "opened"
                         /\ ixErr' = "none"
                         /\ UNCHANGED disk
                    ELSE /\ ixPc' = "failed"
                         /\ ixErr' = "failed to open existing index"
                         /\ UNCHANGED <<disk, idx>>
           ELSE /\ ixPc' = "failed"
                /\ ixErr' = "failed to create new index"
                /\ UNCHANGED <<disk, idx>>
    /\ UNCHANGED <<hits, lastAdd>>
    /\ UNCHANGED <<crawlVars, textVars, serverVars, readVars>>

\* Indexer.AddDocument(filePath, content), lines 50-64
AddDocument(filePath, content) ==
    /\ idx = "open"
    /\ IF disk.fault
         THEN UNCHANGED <<disk, hits, lastAdd>>
         ELSE /\ disk' = [disk EXCEPT !.docs =
                    IndexDoc(disk.docs, filePath,
                             [Path |-> filePath, Content |-> content])]
              /\ hits' = NoHits
              /\ lastAdd' = [path |-> filePath, content |-> content,
                             had |-> filePath \in DOMAIN disk.docs,
                             old |-> IF filePath \in DOMAIN disk.docs
                                       THEN disk.docs[filePath].Content
                                       ELSE <<>>]
    /\ UNCHANGED <<idx, ixPc, ixErr>>
    /\ UNCHANGED <<crawlVars, textVars, serverVars, readVars>>

\* Indexer.Search(query), lines 67-80
Search(q) ==
    /\ idx = "open"
    /\ IF disk.fault
         THEN UNCHANGED hits
         ELSE hits' = [term |-> q, ids |-> Matches(disk.docs, q)]
    /\ UNCHANGED <<disk, idx, ixPc, ixErr, lastAdd>>
    /\ UNCHANGED <<crawlVars, textVars, serverVars, readVars>>

\* Indexer.Close(), lines 99-101
Close ==
    /\ idx = "open"
    /\ idx' = "none"
    /\ ixPc' = "ready"
    /\ hits' = NoHits
    /\ lastAdd' = NoAdd
    /\ UNCHANGED <<disk, ixErr>>
    /\ UNCHANGED <<crawlVars, textVars, serverVars, readVars>>

\* The caller that got an error is run again.
Rerun ==
    /\ ixPc = "failed"
    /\ ixPc' = "ready"
    /\ UNCHANGED <<disk, idx, ixErr, hits, lastAdd>>
    /\ UNCHANGED <<crawlVars, textVars, serverVars, readVars>>

IndexNext ==
    \/ Storage
    \/ Rerun
    \/ NewIndexer
    \/ \E p \in IndexPaths, c \in Contents : AddDocument(p, c)
    \/ \E q \in Queries : Search(q)
    \/ Close

SpecIndex == IndexInit /\ [][IndexNext]_vars

(***************************************************************************)
(* The server command, scraper.go:358-364 and 396-506.                     *)
(*   langFlag          the value of -lang, as its comma-separated entries; *)
(*                     <<>> when the flag is omitted or empty              *)
(*   allowedLanguages  the package variable of line 304                    *)
(*   srvPc             "start", "fatal" (log.Fatal), "serving"             *)
(*   lastReply         the last tool result returned: the tool, which of   *)
(*                     its arguments the request carried, its lang, the    *)
(*                     result, and whether http.Get was called for it      *)
(***************************************************************************)
FlagEntries == {"html", " css", "go ", ""}

LangFlags ==
    {<<>>} \cup {<<e>> : e \in FlagEntries \ {""}}
           \cup {<<e, f>> : e, f \in FlagEntries}

RequestLangs == {"html", "css", "go", ""}

\* a request carries both required arguments, or lacks lang, or lacks the
\* other one (query or path)
RequestArgs == {"both", "no lang", "no other"}

\* strings.TrimSpace, line 403
TrimSpace(e) ==
    CASE e = " css" -> "css"
      [] e = "go "  -> "go"
      [] OTHER      -> e

\* initAllowedLanguages(langs), lines 396-406, for a non-empty langs
initAllowedLanguages(langs) ==
    [nil |-> FALSE, keys |-> {TrimSpace(langs[i]) : i \in DOMAIN langs}]

\* Mutant: every language is allowed.
isLanguageAllowedAny(lang) == TRUE

\* isLanguageAllowed(lang), lines 408-413
isLanguageAllowed(lang) ==
    IF allowedLanguages.nil THEN TRUE ELSE lang \in allowedLanguages.keys

ServerInit ==
    /\ langFlag = <<>>
    /\ allowedLanguages = NilMap
    /\ srvPc = "start"
    /\ lastReply = NoReply
    /\ CrawlIdle
    /\ TextIdle
    /\ IndexIdle
    /\ ReadIdle

\* case "server", lines 358-364
MainServer(flag) ==
    /\ srvPc = "start"
    /\ langFlag' = flag
    /\ IF flag = <<>>
         THEN /\ srvPc' = "fatal"
              /\ UNCHANGED allowedLanguages
         ELSE /\ allowedLanguages' = initAllowedLanguages(flag)
              /\ srvPc' = "serving"
    /\ UNCHANGED lastReply
    /\ UNCHANGED <<crawlVars, textVars, indexVars, readVars>>

\* the result of a tool handler: RequireString on both arguments, the
\* language test, then the work behind the tool, which ends as o
ToolResult(args, lang, o) ==
    IF args # "both" THEN "missing argument"
    ELSE IF ~isLanguageAllowed(lang) THEN "not allowed"
    ELSE o

\* SearchDoc or ReadDocContent is called, and with it http.Get
ToolFetches(args, lang) == args = "both" /\ isLanguageAllowed(lang)

\* handleSearchDoc, lines 459-484
handleSearchDoc(args, lang, o) ==
    /\ srvPc = "serving"
    /\ lastReply' = [tool |-> "search_doc", args |-> args, lang |-> lang,
                     result |-> ToolResult(args, lang, o),
                     fetched |-> ToolFetches(args, lang)]
    /\ UNCHANGED <<langFlag, allowedLanguages, srvPc>>
    /\ UNCHANGED <<crawlVars, textVars, indexVars, readVars>>

\* handleReadDocContent, lines 486-506
handleReadDocContent(args, lang, o) ==
    /\ srvPc = "serving"
    /\ lastReply' = [tool |-> "read_doc_content", args |-> args, lang |-> lang,
                     result |-> ToolResult(args, lang, o),
                     fetched |-> ToolFetches(args, lang)]
    /\ UNCHANGED <<langFlag, allowedLanguages, srvPc>>
    /\ UNCHANGED <<crawlVars, textVars, indexVars, readVars>>

ServerNext ==
    \/ \E flag \in LangFlags : MainServer(flag)
    \/ \E args \in RequestArgs, lang \in RequestLangs, o \in {"text", "error"} :
          handleSearchDoc(args, lang, o)
    \/ \E args \in RequestArgs, lang \in RequestLangs, o \in {"text", "error"} :
          handleReadDocContent(args, lang, o)

SpecServer == ServerInit /\ [][ServerNext]_vars

(***************************************************************************)
(* The read command, scraper.go:345-357, and ReadDocContent, 550-569.      *)
(***************************************************************************)
\* The longest content fetched, in bytes.
MaxContentLen == 502

\* Line 356: the 500 of content[:500]
SnippetLen == 500

\* a page of n bytes
Page(n) == [i \in 1..n |-> i % 256]

\* The Go slice expression s[:hi] on a string: it panics when hi > len(s).
SliceTo(str, hi) ==
    IF hi > Len(str)
      THEN [panic |-> TRUE, value |-> <<>>]
      ELSE [panic |-> FALSE, value |-> SubSeq(str, 1, hi)]

ReadInit ==
    /\ readPc = "start"
    /\ readContent = <<>>
    /\ snippet = <<>>
    /\ CrawlIdle
    /\ TextIdle
    /\ IndexIdle
    /\ ServerIdle

\* Lines 345-349: the flags are parsed; both are required.
MainRead(flagsGiven) ==
    /\ readPc = "start"
    /\ readPc' = IF flagsGiven THEN "fetch" ELSE "fatal"
    /\ UNCHANGED <<readContent, snippet>>
    /\ UNCHANGED <<crawlVars, textVars, indexVars, serverVars>>

\* ReadDocContent(langSlug, entryPath), lines 550-569, for a page of n bytes;
\* o is how http.Get, the status test and ReadAll end.  On an error main
\* logs it (line 352) and the command ends.
ReadDocContent(o, n) ==
    /\ readPc = "fetch"
    /\ IF o = "ok"
         THEN /\ readContent' = Page(n)
              /\ readPc' = "got"
         ELSE /\ readPc' = "error"
              /\ UNCHANGED readContent
    /\ UNCHANGED snippet
    /\ UNCHANGED <<crawlVars, textVars, indexVars, serverVars>>

\* Lines 354-356: the snippet is printed.
PrintSnippet ==
    /\ readPc = "got"
    /\ LET sl == SliceTo(readContent, SnippetLen)
       IN  IF sl.panic
             THEN /\ readPc' = "panic"
                  /\ UNCHANGED snippet
             ELSE /\ readPc' = "printed"
                  /\ snippet' = sl.value
    /\ UNCHANGED readContent
    /\ UNCHANGED <<crawlVars, textVars, indexVars, serverVars>>

ReadNext ==
    \/ \E flagsGiven \in BOOLEAN : MainRead(flagsGiven)
    \/ \E o \in {"get_err", "status", "read_err", "ok"}, n \in 0..MaxContentLen :
          ReadDocContent(o, n)
    \/ PrintSnippet

SpecRead == ReadInit /\ [][ReadNext]_vars

(***************************************************************************)
(* Properties.                                                             *)
(***************************************************************************)
W == DOMAIN workers

\* the workers started by the DownloadDoc call in progress (or last made)
ThisCall(w) == workers[w].call = calls

\* the range loop holds a dequeued task it has not yet decided
Holding == coPc \in {"claim", "dup", "depth"}

\* every task that exists outside a worker: queued, or held by the loop
PendingTasks ==
    {queue[k] : k \in DOMAIN queue} \cup (IF Holding THEN {current} ELSE {})

\* C1: within one DownloadDoc call no URL is handed to fetchAndProcess twice.
C1_FetchedAtMostOnce ==
    \A v, w \in W :
        (v # w /\ workers[v].call = workers[w].call)
            => workers[v].url # workers[w].url

\* C1 witness: a URL already fetched by a worker is dequeued again as a
\* duplicate while a further copy of it is still queued.
C1_Witness ==
    /\ coPc = "dup"
    /\ \E k \in DOMAIN queue : queue[k].url = current.url
    /\ \E w \in W : /\ ThisCall(w)
                    /\ workers[w].url = current.url
                    /\ workers[w].pc # "fetch"

\* C2: DownloadDoc returns: whenever no goroutine can take a step, the call
\* has returned (no state with the coordinator and the workers all blocked).
C2_DownloadDocReturns ==
    coPc \in {"idle", "returned", "error"} \/ ENABLED Next

\* tasks created and not yet finished
Outstanding ==
    (IF sdPc = "send" THEN 1 ELSE 0)
    + Len(queue)
    + (IF Holding THEN 1 ELSE 0)
    + Cardinality({w \in W : workers[w].pc \notin {"done", "panic"}})
    + Cardinality({w \in W : workers[w].pc = "send"})

\* C3: the WaitGroup counter equals the number of tasks being sent, queued,
\* held by the loop or running in a worker, and is never negative.
C3_CounterMatchesOutstanding ==
    /\ wg = Outstanding
    /\ wg >= 0
    /\ \A w \in W : workers[w].dones = (IF workers[w].pc = "done" THEN 1 ELSE 0)

\* C3 witness: a task of every kind is outstanding at once: one held by the
\* loop, one queued, one being sent by a worker that is itself running.
C3_Witness ==
    /\ Holding
    /\ queue # <<>>
    /\ \E w \in W : workers[w].pc = "send"
    /\ wg >= 4

\* C4: the queue is closed, and DownloadDoc has returned, only with the
\* counter at 0, nothing queued and every worker finished; a finished worker
\* has gone through all its links; no send meets a closed queue.
C4_ClosedOnlyWhenIdle ==
    /\ (closed \/ sdPc \in {"close", "exit"} \/ coPc = "returned")
          => /\ wg = 0
             /\ queue = <<>>
             /\ ~Holding
             /\ \A w \in W : workers[w].pc = "done"
    /\ \A w \in W :
          /\ workers[w].pc # "panic"
          /\ (workers[w].pc = "done" /\ ExtractsLinks(workers[w].outcome))
                => workers[w].i = Len(Links(w)) + 1

\* C4 witness: a crawl in which workers enqueued tasks has returned.
C4_Witness ==
    /\ coPc = "returned"
    /\ closed
    /\ Cardinality({w \in W : ThisCall(w)}) >= 2
    /\ \E w \in W : ThisCall(w) /\ workers[w].sent >= 2

\* C5: no worker is started for a task deeper than maxDepth; with
\* maxDepth = 0 only the seed is fetched.
C5_NoFetchBeyondMaxDepth ==
    \A w \in W :
        ThisCall(w) => /\ workers[w].depth <= maxDepth
                       /\ maxDepth = 0 => workers[w].url = seedURL

\* C5 witness: the crawl has returned, a worker at depth maxDepth enqueued a
\* link, and a URL was dequeued and marked that no worker ever fetched.
C5_Witness ==
    /\ coPc = "returned"
    /\ \E w \in W : /\ ThisCall(w)
                    /\ workers[w].depth = maxDepth
                    /\ workers[w].sent > 0
    /\ \E u \in visitedURLs : \A w \in W : workers[w].url # u

\* C6: a dequeued task beyond maxDepth is finished without a fetch and
\* without its URL being put in the visited set.
C6_DepthSkipLeavesUnvisited ==
    (coPc = "depth" /\ DepthExceeded(current.depth))
        => /\ current.url \notin visitedURLs
           /\ \A w \in W : ThisCall(w) => workers[w].url # current.url

\* C7 as stated: no task deeper than maxDepth is ever created or queued.
C7_NoTaskBeyondMaxDepth ==
    /\ \A t \in PendingTasks : t.depth <= maxDepth
    /\ \A w \in W : workers[w].pc = "send" => ChildDepth(workers[w].depth) <= maxDepth

\* C7 amended: a worker at depth d enqueues its in-domain, not yet visited
\* links at depth d+1 whatever maxDepth is, so tasks exist at depth
\* maxDepth+1 and at no greater depth.
C7_TaskDepthAtMostOneBeyond ==
    /\ \A t \in PendingTasks : t.depth <= maxDepth + 1
    /\ \A w \in W :
          (ThisCall(w) /\ workers[w].pc = "send")
              => /\ workers[w].depth <= maxDepth
                 /\ Links(w)[workers[w].i] \notin visitedURLs

\* C7 witness: a task of depth maxDepth+1 is in the queue.
C7_Witness ==
    \E k \in DOMAIN queue : queue[k].depth = maxDepth + 1

\* C8: a link to another host is never counted, sent, queued, claimed or
\* fetched.
C8_OtherHostNeverEnqueued ==
    /\ \A t \in PendingTasks : Host(t.url) = initialHost
    /\ \A u \in visitedURLs : Host(u) = initialHost
    /\ \A w \in W :
          /\ Host(workers[w].url) = initialHost
          /\ workers[w].pc = "send" => Host(Links(w)[workers[w].i]) = initialHost

\* C8 witness: a worker has gone through a link list that holds a link to
\* another host, and enqueued the links around it.
C8_Witness ==
    \E w \in W :
        /\ workers[w].pc = "done"
        /\ workers[w].sent >= 2
        /\ \E k \in DOMAIN Links(w) : Host(Links(w)[k]) # initialHost

FetchFailures == {"get_err", "read_err", "status"}

\* C9: a task whose fetch fails (network error, non-200 status) saves no
\* page, indexes nothing, enqueues nothing, is done once, and its URL stays
\* visited.
C9_FetchFailureIsTerminal ==
    \A w \in W :
        workers[w].outcome \in FetchFailures
            => /\ ~workers[w].saved
               /\ ~workers[w].indexed
               /\ workers[w].sent = 0
               /\ workers[w].i = 1
               /\ workers[w].pc \in {"ret", "done"}
               /\ workers[w].dones = (IF workers[w].pc = "done" THEN 1 ELSE 0)
               /\ workers[w].url \in visitedURLs

\* C9 witness: a worker whose fetch failed is done, and its page has an
\* in-domain link that nobody has visited.
C9_Witness ==
    \E w \in W :
        /\ workers[w].outcome \in FetchFailures
        /\ workers[w].pc = "done"
        /\ \E k \in DOMAIN Links(w) :
              SameHost(Links(w)[k]) /\ Links(w)[k] \notin visitedURLs

StorageFailures == {"mkdir_err", "write_err"}

\* C10 as stated: after a storage failure the task is done and the page's
\* in-domain links have been enqueued (each is queued, held or visited).
C10_StorageErrorStillEnqueues ==
    \A w \in W :
        (workers[w].outcome \in StorageFailures /\ workers[w].pc = "done")
            => /\ workers[w].dones = 1
               /\ \A k \in DOMAIN Links(w) :
                     SameHost(Links(w)[k])
                         => \/ Links(w)[k] \in visitedURLs
                            \/ \E t \in PendingTasks : t.url = Links(w)[k]

\* C10 amended: after a storage failure the task is done once and the worker
\* returns before parsing: nothing is indexed and no link is enqueued.
C10_StorageErrorIsTerminal ==
    \A w \in W :
        workers[w].outcome \in StorageFailures
            => /\ ~workers[w].indexed
               /\ workers[w].sent = 0
               /\ workers[w].i = 1
               /\ workers[w].pc \in {"ret", "done"}
               /\ workers[w].dones = (IF workers[w].pc = "done" THEN 1 ELSE 0)

\* C10 witness: a worker that failed to store its page is done, and the page
\* has an in-domain link that nobody has visited or queued.
C10_Witness ==
    \E w \in W :
        /\ workers[w].outcome \in StorageFailures
        /\ workers[w].pc = "done"
        /\ \E k \in DOMAIN Links(w) :
              /\ SameHost(Links(w)[k])
              /\ Links(w)[k] \notin visitedURLs
              /\ \A t \in PendingTasks : t.url # Links(w)[k]

\* an in-domain link of worker w's page has been enqueued by somebody: it is
\* queued, held by the loop or already visited
LinksAllEnqueued(w) ==
    \A k \in DOMAIN Links(w) :
        (ParseOK(Links(w)[k]) /\ SameHost(Links(w)[k]))
            => \/ Links(w)[k] \in visitedURLs
               \/ \E t \in PendingTasks : t.url = Links(w)[k]

\* C11: a page whose AddDocument fails is not indexed, the crawl goes on,
\* the worker walks the whole link list and enqueues the in-domain links,
\* and the task is done once.
C11_IndexErrorStillEnqueues ==
    \A w \in W :
        workers[w].outcome = "index_err"
            => /\ ~workers[w].indexed
               /\ workers[w].pc \in {"links", "send", "done"}
               /\ workers[w].dones = (IF workers[w].pc = "done" THEN 1 ELSE 0)
               /\ workers[w].pc = "done"
                     => /\ workers[w].i = Len(Links(w)) + 1
                        /\ LinksAllEnqueued(w)
               /\ ThisCall(w) => coPc \in {"recv", "claim", "dup", "depth", "returned"}

\* C11 witness: a worker whose AddDocument failed is done and has enqueued
\* links, and the crawl has returned.
C11_Witness ==
    /\ coPc = "returned"
    /\ \E w \in W : /\ workers[w].outcome = "index_err"
                    /\ workers[w].pc = "done"
                    /\ workers[w].sent >= 2

\* C12: a DownloadDoc call whose seed URL does not parse returns the error
\* and changes nothing: no Add, no queue, no seeder, no worker, the visited
\* set as before.
C12_InvalidSeedAborts ==
    [][(calls' # calls /\ seedURL' = BadURL)
          => /\ coPc' = "error"
             /\ UNCHANGED <<wg, queue, closed, sdPc, visitedURLs, workers, mu,
                            current>>]_vars

\* C12 witness: a call with an unparsable seed has returned its error on a
\* Scraper that had crawled before.
C12_Witness ==
    /\ coPc = "error"
    /\ seedURL = BadURL
    /\ visitedURLs # {}
    /\ \E w \in W : workers[w].indexed

AnyFailure == FetchOutcomes \ {"ok"}

\* C13: a call whose seed parsed never ends in the error return; a failed
\* task holds no lock; when the call has returned every task was decided;
\* and when no goroutine can move before the return, a worker is blocked in
\* its send, so the stop is not the work of a failed task.
C13_FailuresAreIsolated ==
    /\ coPc = "error" => ~ParseOK(seedURL)
    /\ \A w \in W : (workers[w].outcome \in AnyFailure \ {"index_err"})
                        => (mu # w /\ workers[w].pc \in {"ret", "done"})
    /\ coPc = "returned" => \A w \in W : workers[w].pc = "done"
    /\ (coPc \in {"recv", "claim", "dup", "depth"} /\ ~ENABLED Next)
          => \E w \in W : workers[w].pc = "send" /\ mu = w

\* C13 witness: a crawl has returned nil in which two tasks failed and a task
\* started after a failure was processed with success.
C13_Witness ==
    /\ coPc = "returned"
    /\ \E v, w \in W :
          /\ v < w
          /\ ThisCall(v) /\ ThisCall(w)
          /\ workers[v].outcome \in FetchFailures
          /\ workers[w].outcome = "ok"
    /\ Cardinality({w \in W : ThisCall(w) /\ workers[w].outcome \in AnyFailure}) >= 2

\* C14: the visited set only grows, by the claim of a URL not yet in it; no
\* worker is started for a URL a worker was started for before (failed or
\* not); a link is counted for sending only if it is not visited.
C14_VisitedAppendOnly ==
    [][/\ visitedURLs \subseteq visitedURLs'
       /\ Len(workers') > Len(workers)
             => workers'[Len(workers')].url \notin {workers[w].url : w \in W}
       /\ visitedURLs' # visitedURLs
             => /\ current.url \notin visitedURLs
                /\ visitedURLs' = visitedURLs \cup {current.url}
       /\ \A w \in W : (workers[w].pc # "send" /\ workers'[w].pc = "send")
                          => Links(w)[workers[w].i] \notin visitedURLs]_vars

\* C14 witness: a worker started after a task failed has gone through a link
\* to the failed URL without enqueuing anything.
C14_Witness ==
    \E v, w \in W :
        /\ v < w
        /\ workers[v].outcome \in AnyFailure \ {"index_err"}
        /\ workers[v].pc = "done"
        /\ workers[w].pc = "done"
        /\ ExtractsLinks(workers[w].outcome)
        /\ workers[w].sent = 0
        /\ \E k \in DOMAIN Links(w) : Links(w)[k] = workers[v].url

\* the same-host URLs at most d links away from the seed
RECURSIVE Within(_)
Within(d) ==
    IF d = 0
      THEN {seedURL}
      ELSE LET near == Within(d - 1)
           IN  near \cup {u \in URLs :
                            /\ ParseOK(u) /\ SameHost(u)
                            /\ \E p \in near \cap DOMAIN site :
                                  \E k \in DOMAIN site[p] : site[p][k] = u}

\* C19: when every fetch, save, parse and index succeeds, a first crawl that
\* has returned has fetched and indexed every same-host URL at most maxDepth
\* links from the seed.
C19_AllWithinDepthFetched ==
    (coPc = "returned" /\ calls = 1 /\ \A w \in W : workers[w].outcome = "ok")
        => \A u \in Within(maxDepth) :
              \E w \in W : workers[w].url = u /\ workers[w].indexed

\* the tasks that are not finished are all in a fetch that has not returned
OnlyFetchesPending ==
    /\ queue = <<>>
    /\ ~Holding
    /\ sdPc # "send"
    /\ \A w \in W : workers[w].pc \in {"fetch", "done"}

\* C20 (what a pending fetch blocks): while a fetch has not returned the
\* counter is at least 1, the queue is open and DownloadDoc has not returned.
C20_PendingFetchKeepsCrawlOpen ==
    (\E w \in W : workers[w].pc = "fetch")
        => (wg >= 1 /\ ~closed /\ coPc \in {"recv", "claim", "dup", "depth"})

\* C20: a fetch that never returns stops no other task: when nothing but the
\* return of a fetch can still happen, every other task is finished.
C20_HungFetchBlocksNothingElse ==
    ((\E w \in W : workers[w].pc = "fetch") /\ ~ENABLED Progress)
        => OnlyFetchesPending

\* p comes before q in document order (a node before its descendants, a
\* child's subtree before its next sibling)
RECURSIVE Before(_, _)
Before(p, q) ==
    IF p = <<>> THEN q # <<>>
    ELSE IF q = <<>> THEN FALSE
    ELSE IF Head(p) # Head(q) THEN Head(p) < Head(q)
    ELSE Before(Tail(p), Tail(q))

\* the text nodes of t with no script or style element among their ancestors
VisibleTextNodes(t) ==
    {p \in DOMAIN t :
        /\ t[p].type = "text"
        /\ \A k \in 0..(Len(p) - 1) :
              LET a == t[SubSeq(p, 1, k)]
              IN  ~(a.type = "element" /\ a.data \in {"script", "style"})}

\* the data of the nodes of S, in document order
RECURSIVE InDocumentOrder(_, _)
InDocumentOrder(t, S) ==
    IF S = {}
      THEN <<>>
      ELSE LET first == CHOOSE p \in S : \A q \in S \ {p} : Before(p, q)
           IN  <<t[first].data>> \o InDocumentOrder(t, S \ {first})

\* C15: extractText returns, in document order, the data of exactly the text
\* nodes that have no script or style element among their ancestors.
C15_TextIsVisibleTextInOrder ==
    textPc = "done"
        => plainText = InDocumentOrder(tree, VisibleTextNodes(tree))

\* C15 witness: a tree with a text node two levels below a script or style
\* element and a text node outside it has been extracted.
C15_Witness ==
    /\ textPc = "done"
    /\ Len(plainText) >= 1
    /\ \E p \in DOMAIN tree :
          /\ Len(p) >= 3
          /\ tree[p].type = "text"
          /\ tree[SubSeq(p, 1, Len(p) - 2)].data \in {"script", "style"}

\* a step in which NewIndexer returns
NewIndexerReturns == ixPc = "ready" /\ ixPc' \in {"opened", "failed"}

\* C16: NewIndexer on a path with no index creates an empty one, on a path
\* with a valid index opens it as it is and returns no error; it returns an
\* error only when the creation fails for a reason other than the path
\* existing or when what is at the path cannot be opened, and then nothing
\* is opened or changed.
C16_OpenOrCreate ==
    [][NewIndexerReturns =>
        /\ (disk.state = "absent" /\ ~disk.fault)
               => /\ ixErr' = "none"
                  /\ idx' = "open"
                  /\ disk' = [disk EXCEPT !.state = "valid", !.docs = NoDocs]
        /\ (disk.state = "valid" /\ ~disk.fault)
               => /\ ixErr' = "none"
                  /\ idx' = "open"
                  /\ disk' = disk
        /\ ixPc' = "failed"
               => /\ ixErr' # "none"
                  /\ disk.fault \/ disk.state = "foreign"
                  /\ ixErr' = "failed to create new index"
                        <=> disk.state = "absent"
                  /\ idx' = "none"
                  /\ disk' = disk
      ]_vars

\* C16 witness: an Indexer that has added nothing is open on an index that
\* holds documents: NewIndexer opened an index that was already there.
C16_Witness ==
    /\ idx = "open"
    /\ ixErr = "none"
    /\ lastAdd = NoAdd
    /\ disk.docs # NoDocs

\* C17: after AddDocument on a path that was already indexed, a search for a
\* term that was indexed for the old content and is indexed neither for the
\* new content nor for the path does not return the path, and a search for a
\* term indexed for the new content returns it.
C17_OverwriteReplaces ==
    (lastAdd.had /\ hits.term # "")
        => /\ hits.term \in Terms(lastAdd.old)
                            \ (Terms(lastAdd.content) \cup PathTerms(lastAdd.path))
                 => lastAdd.path \notin hits.ids
           /\ hits.term \in Terms(lastAdd.content)
                 => lastAdd.path \in hits.ids

\* C17 witness: a path was overwritten and a search for a term of its old
\* content only has returned another path and not this one.
C17_Witness ==
    /\ lastAdd.had
    /\ hits.term \in Terms(lastAdd.old)
                        \ (Terms(lastAdd.content) \cup PathTerms(lastAdd.path))
    /\ hits.ids # {}
    /\ lastAdd.path \notin hits.ids

\* C18: when the server command is run without -lang, the server starts and
\* every language is allowed for search and read requests.
C18_LangFlagOptional ==
    (srvPc \notin {"off", "start"} /\ langFlag = <<>>)
        => /\ srvPc = "serving"
           /\ \A lang \in RequestLangs : isLanguageAllowed(lang)

\* With -lang given, the server starts and allows the trimmed entries only.
C18_LangFlagGivenServes ==
    (srvPc \notin {"off", "start"} /\ langFlag # <<>>)
        => /\ srvPc = "serving"
           /\ ~allowedLanguages.nil
           /\ lastReply.result = "not allowed"
                 <=> /\ lastReply.args = "both"
                     /\ \A i \in DOMAIN langFlag :
                           TrimSpace(langFlag[i]) # lastReply.lang

\* C21 as stated: a task whose page fails to parse leaves no saved page, no
\* index entry and no enqueued links, and is done once.
C21_ParseFailureSavesNothing ==
    \A w \in W :
        workers[w].outcome = "htmlparse_err"
            => /\ ~workers[w].saved
               /\ ~workers[w].indexed
               /\ workers[w].sent = 0
               /\ workers[w].dones = (IF workers[w].pc = "done" THEN 1 ELSE 0)

\* C21 amended: a page is saved only by a task whose fetch returned status
\* 200 and whose file was written, and it is saved before the page is parsed:
\* a task whose page fails to parse leaves the page saved, no index entry and
\* no enqueued links, and is done once.
C21_ParseFailureKeepsSavedPage ==
    \A w \in W :
        /\ workers[w].saved
              => workers[w].outcome \in {"htmlparse_err", "index_err", "ok"}
        /\ workers[w].outcome = "htmlparse_err"
              => /\ workers[w].saved
                 /\ ~workers[w].indexed
                 /\ workers[w].sent = 0
                 /\ workers[w].i = 1
                 /\ workers[w].pc \in {"ret", "done"}
                 /\ workers[w].dones = (IF workers[w].pc = "done" THEN 1 ELSE 0)

\* C21 witness: a worker whose page failed to parse is done, and its page has
\* an in-domain link that nobody has visited.
C21_Witness ==
    \E w \in W :
        /\ workers[w].outcome = "htmlparse_err"
        /\ workers[w].pc = "done"
        /\ \E k \in DOMAIN Links(w) :
              SameHost(Links(w)[k]) /\ Links(w)[k] \notin visitedURLs

\* the call in progress (or last made) crawls a seed that an earlier call on
\* this Scraper has claimed and handed to a worker
SecondCrawlOfSeed ==
    /\ calls >= 2
    /\ ParseOK(seedURL)
    /\ \E w \in W : workers[w].call < calls /\ workers[w].url = seedURL

\* C22: the visited set is never reset between DownloadDoc calls: every URL
\* a worker was started for stays visited, and a later crawl of a seed that
\* an earlier call has claimed starts no worker (no fetch, no save, no index
\* entry), never stops before its return, and returns nil with the counter
\* at 0.
C22_SecondCrawlFetchesNothing ==
    /\ \A w \in W : workers[w].url \in visitedURLs
    /\ SecondCrawlOfSeed
          => /\ \A w \in W : ~ThisCall(w)
             /\ coPc # "error"
             /\ wg <= 1
             /\ coPc = "returned" => (wg = 0 /\ closed /\ queue = <<>>)
             /\ coPc # "returned" => ENABLED Next

\* C22 witness: the second crawl of the seed has returned.
C22_Witness ==
    /\ SecondCrawlOfSeed
    /\ coPc = "returned"
    /\ wg = 0
    /\ Cardinality(visitedURLs) >= 2

\* the flag entries that name the language l: l itself or l with a space
\* before or after it
Padded(l) ==
    CASE l = "css" -> {"css", " css"}
      [] l = "go"  -> {"go", "go "}
      [] OTHER     -> {l}

\* the language list the server was initialised with, its entries trimmed
ConfiguredLangs ==
    {l \in RequestLangs : \E i \in DOMAIN langFlag : langFlag[i] \in Padded(l)}

\* C23: once the server serves a language list, each search_doc or
\* read_doc_content request carrying its two required arguments, at any
\* point of any sequence of requests, is answered with an error and without
\* an http.Get when its lang is not in the trimmed list, and goes on to the
\* http.Get when it is; the list itself is never changed by a request.
C23_LanguageFilter ==
    srvPc = "serving"
        => /\ ~allowedLanguages.nil
           /\ allowedLanguages.keys \cap RequestLangs = ConfiguredLangs
           /\ lastReply.tool # "none"
                 => /\ lastReply.lang \notin ConfiguredLangs
                          => /\ ~lastReply.fetched
                             /\ lastReply.result \in {"not allowed",
                                                      "missing argument"}
                    /\ (lastReply.lang \in ConfiguredLangs
                            /\ lastReply.args = "both")
                          => /\ lastReply.fetched
                             /\ lastReply.result \in {"text", "error"}

\* C23 witness: the list was given with a padded entry, and a request for
\* a language outside it has been refused.
C23_Witness ==
    /\ srvPc = "serving"
    /\ " css" \in {langFlag[i] : i \in DOMAIN langFlag}
    /\ lastReply.tool = "read_doc_content"
    /\ lastReply.args = "both"
    /\ lastReply.lang = "go"
    /\ lastReply.result = "not allowed"

\* the first k elements of str, all of it when it is shorter
FirstBytes(str, k) == SubSeq(str, 1, IF Len(str) < k THEN Len(str) ELSE k)

\* C24: once content of any length was fetched and the snippet line was
\* reached, the command has printed the first 500 bytes of the content (all
\* of it when it is shorter) and has not failed.
C24_SnippetPrinted ==
    readPc \in {"printed", "panic"}
        => /\ readPc = "printed"
           /\ snippet = FirstBytes(readContent, 500)

\* Content of 500 bytes or more is printed as its first 500 bytes.
C24_LongContentSnippet ==
    /\ (readPc = "printed" \/ (readPc = "got" /\ Len(readContent) >= 500))
          => /\ Len(readContent) >= 500
             /\ readPc = "printed" => snippet = FirstBytes(readContent, 500)
    /\ readPc = "panic" => Len(readContent) < 500

====
